---- MODULE Spec2Model ----
(***************************************************************************)
(* Model of src/time_tracker/time_tracker.py (class TimeTracker) and of     *)
(* src/galaxyutils/config_parser.py (get_config_options).                  *)
(*                                                                         *)
(* Three specifications share the variables: Spec, the calls made on one   *)
(* tracker by one thread; ConfigSpec (and ConfigFairSpec), one call of     *)
(* get_config_options; ThreadSpec, two threads calling one tracker.  The   *)
(* variables of the other two are idle in each.                            *)
(*                                                                         *)
(* Representation of the floats of the program.  time() returns seconds as *)
(* a real number; the model counts time in ticks, TicksPerSecond ticks to  *)
(* the second, so a clock reading t stands for t / TicksPerSecond seconds. *)
(* 'last_played' is stored in ticks.  'time_played' is a number of         *)
(* minutes; it is stored in units of 1 / TicksPerMinute of a minute, so the*)
(* stored number p stands for p / TicksPerMinute minutes and the division  *)
(* (current_time - start_time) / 60 of line 43 is exact: in these units it *)
(* is current_time - start_time.  Floating-point rounding error is not     *)
(* modelled.                                                               *)
(***************************************************************************)
EXTENDS Integers, Sequences, FiniteSets, TLC

VARIABLES
    constructed,         \* TRUE iff TimeTracker.__init__ returned (a tracker object exists)
    game_time_cache,     \* self._game_time_cache : game_id -> [time_played, last_played]
    running_games_dict,  \* self._running_games_dict : game_id -> _RunningGameInfo
    call,                \* the last call made on the tracker: its arguments, locals and outcome
    config,              \* one call of get_config_options: the files, the frame, the outcome
    threads              \* the calls in progress in the threads that share the tracker

vars == <<constructed, game_time_cache, running_games_dict, call, config, threads>>

(***************************************************************************)
(* Bounds of the model.                                                    *)
(***************************************************************************)
\* clock readings are ClockStep, 2 * ClockStep, ..., MaxTick * ClockStep ticks
MaxTick == 3
\* distance between two clock readings, in ticks (163 ticks = 40.75 s)
ClockStep == 163
\* resolution of the clock: ticks per second
TicksPerSecond == 4

\* the 60 of 'minutes_passed = (current_time - start_time) / 60'
SecondsPerMinute == 60

TicksPerMinute == SecondsPerMinute * TicksPerSecond

Entities == {"g1", "g2"}

\* the values time() can return; the wall clock may be set back between two calls
ClockReadings == {k * ClockStep : k \in 1..MaxTick}

(***************************************************************************)
(* Python values and built-ins.                                            *)
(***************************************************************************)
EmptyDict == <<>>

\* d[k] = v
DictSet(d, k, v) == [x \in DOMAIN d \cup {k} |-> IF x = k THEN v ELSE d[x]]

\* del d[k]
DictDel(d, k) == [x \in DOMAIN d \ {k} |-> d[x]]

\* int(a / b) for b > 0: truncation toward zero
TruncDiv(a, b) == IF a >= 0 THEN a \div b ELSE -((-a) \div b)

\* round(a / b) for b > 0: Python 3 rounds to nearest, ties to the even integer
RoundDiv(a, b) ==
    LET q == a \div b
        r == a % b
    IN  IF 2 * r < b THEN q
        ELSE IF 2 * r > b THEN q + 1
        ELSE IF q % 2 = 0 THEN q ELSE q + 1

Range(s) == {s[i] : i \in DOMAIN s}

(***************************************************************************)
(* pickle.dumps / pickle.loads and str.hex / bytes.fromhex.                *)
(* A pickle is a sequence of bytes: the opcodes of protocol 4 that a dict  *)
(* of str -> dict of str -> float needs.  FRAME, MEMOIZE and BINGET are    *)
(* left out, and every dict is filled with MARK ... SETITEMS.  A float is  *)
(* BINFLOAT and 8 bytes: the sign in the top bit of the first byte, the    *)
(* magnitude of the stored number big-endian in the other seven.           *)
(***************************************************************************)
Op == [PROTO |-> 128, EMPTY_DICT |-> 125, MARK |-> 40, SHORT_BINUNICODE |-> 140,
       BINFLOAT |-> 71, SETITEMS |-> 117, STOP |-> 46]

Utf8 == [g1 |-> <<103, 49>>, g2 |-> <<103, 50>>,
         time_played |-> <<116, 105, 109, 101, 95, 112, 108, 97, 121, 101, 100>>,
         last_played |-> <<108, 97, 115, 116, 95, 112, 108, 97, 121, 101, 100>>]

HexDigits == <<"0", "1", "2", "3", "4", "5", "6", "7", "8", "9", "a", "b", "c", "d", "e", "f">>

RECURSIVE BigEndian(_, _)
BigEndian(m, n) == IF n = 0 THEN <<>> ELSE Append(BigEndian(m \div 256, n - 1), m % 256)

RECURSIVE FromBigEndian(_)
FromBigEndian(bs) ==
    IF bs = <<>> THEN 0 ELSE FromBigEndian(SubSeq(bs, 1, Len(bs) - 1)) * 256 + bs[Len(bs)]

save_float(x) ==
    <<Op.BINFLOAT, IF x < 0 THEN 128 ELSE 0>> \o BigEndian(IF x < 0 THEN -x ELSE x, 7)

save_str(s) == <<Op.SHORT_BINUNICODE, Len(Utf8[s])>> \o Utf8[s]

save_record(r) ==
    <<Op.EMPTY_DICT, Op.MARK>>
    \o save_str("time_played") \o save_float(r.time_played)
    \o save_str("last_played") \o save_float(r.last_played)
    \o <<Op.SETITEMS>>

RECURSIVE save_items(_, _)
save_items(d, keys) ==
    IF keys = {} THEN <<>>
    ELSE LET k == CHOOSE x \in keys : TRUE
         IN  save_str(k) \o save_record(d[k]) \o save_items(d, keys \ {k})

pickle_dumps(d) ==
    <<Op.PROTO, 4, Op.EMPTY_DICT>>
    \o (IF DOMAIN d = {} THEN <<>>
        ELSE <<Op.MARK>> \o save_items(d, DOMAIN d) \o <<Op.SETITEMS>>)
    \o <<Op.STOP>>

\* bytes.hex(): two lower-case digits per byte, high nibble first
bytes_hex(bs) ==
    [i \in 1..(2 * Len(bs)) |->
        LET b == bs[(i + 1) \div 2]
        IN  HexDigits[(IF i % 2 = 1 THEN b \div 16 ELSE b % 16) + 1]]

HexValue(c) == (CHOOSE i \in DOMAIN HexDigits : HexDigits[i] = c) - 1

\* bytes.fromhex() raises ValueError on an odd length or a character that is no digit
is_hex(s) == Len(s) % 2 = 0 /\ \A i \in DOMAIN s : s[i] \in Range(HexDigits)

\* a decoder that reads the low nibble first
bytes_fromhex_swapped(s) ==
    [i \in 1..(Len(s) \div 2) |-> HexValue(s[2 * i - 1]) + 16 * HexValue(s[2 * i])]

bytes_fromhex(s) ==
    [i \in 1..(Len(s) \div 2) |-> 16 * HexValue(s[2 * i - 1]) + HexValue(s[2 * i])]

\* the byte at pos, -1 past the end of the input
At(bs, pos) == IF pos <= Len(bs) THEN bs[pos] ELSE -1

LoadFail(pos) == [ok |-> FALSE, value |-> <<>>, pos |-> pos]

load_str(bs, pos) ==
    IF /\ At(bs, pos) = Op.SHORT_BINUNICODE
       /\ pos + 1 <= Len(bs)
       /\ pos + 1 + bs[pos + 1] <= Len(bs)
    THEN [ok |-> TRUE, value |-> SubSeq(bs, pos + 2, pos + 1 + bs[pos + 1]),
          pos |-> pos + 2 + bs[pos + 1]]
    ELSE LoadFail(pos)

load_float(bs, pos) ==
    IF At(bs, pos) = Op.BINFLOAT /\ pos + 8 <= Len(bs)
    THEN [ok |-> TRUE,
          value |-> (IF bs[pos + 1] >= 128 THEN -1 ELSE 1)
                    * FromBigEndian(SubSeq(bs, pos + 2, pos + 8)),
          pos |-> pos + 9]
    ELSE LoadFail(pos)

load_record(bs, pos) ==
    LET k1 == load_str(bs, pos + 2)
        v1 == load_float(bs, k1.pos)
        k2 == load_str(bs, v1.pos)
        v2 == load_float(bs, k2.pos)
    IN  IF /\ At(bs, pos) = Op.EMPTY_DICT
           /\ At(bs, pos + 1) = Op.MARK
           /\ k1.ok /\ k1.value = Utf8["time_played"]
           /\ v1.ok
           /\ k2.ok /\ k2.value = Utf8["last_played"]
           /\ v2.ok
           /\ At(bs, v2.pos) = Op.SETITEMS
        THEN [ok |-> TRUE,
              value |-> [time_played |-> v1.value, last_played |-> v2.value],
              pos |-> v2.pos + 1]
        ELSE LoadFail(pos)

RECURSIVE load_items(_, _, _)
load_items(bs, pos, acc) ==
    IF At(bs, pos) = Op.SETITEMS THEN [ok |-> TRUE, value |-> acc, pos |-> pos + 1]
    ELSE LET k == load_str(bs, pos)
             r == load_record(bs, k.pos)
         IN  IF /\ k.ok
                /\ \E e \in Entities : Utf8[e] = k.value
                /\ r.ok
             THEN load_items(bs, r.pos,
                             DictSet(acc, CHOOSE e \in Entities : Utf8[e] = k.value, r.value))
             ELSE LoadFail(pos)

\* [ok, value]: ok is FALSE where pickle.loads raises (UnpicklingError, or EOFError on
\* an input that ends early; the model names both UnpicklingError)
pickle_loads(bs) ==
    IF At(bs, 1) = Op.PROTO /\ At(bs, 2) = 4 /\ At(bs, 3) = Op.EMPTY_DICT
    THEN IF At(bs, 4) = Op.STOP THEN [ok |-> TRUE, value |-> EmptyDict]
         ELSE IF At(bs, 4) = Op.MARK
              THEN LET it == load_items(bs, 5, EmptyDict)
                   IN  IF it.ok /\ At(bs, it.pos) = Op.STOP
                       THEN [ok |-> TRUE, value |-> it.value]
                       ELSE [ok |-> FALSE, value |-> EmptyDict]
              ELSE [ok |-> FALSE, value |-> EmptyDict]
    ELSE [ok |-> FALSE, value |-> EmptyDict]

\* get_time_cache_hex of a tracker whose store is d
time_cache_hex(d) == bytes_hex(pickle_dumps(d))

(***************************************************************************)
(* TimeTracker.                                                            *)
(***************************************************************************)
\* the record of one call: op and its arguments (game_id; start_time, and
\* whether it was passed, for start_tracking_game; blob for __init__), the value of
\* the test of line 26 (fresh), whether game_id was a key of _running_games_dict when
\* the call began (was_running), the wall clock during the call (current_time: what
\* time() returned, or would have returned in a start_tracking_game that was given no
\* start_time and did not read it; 0 in the calls where the clock plays no part), the
\* local start_time of get_tracked_time, and what the call returned (result: the
\* GameTime, blob: the hex string) or raised (outcome)
Call(op, game_id, given, start_time, fresh, was_running, current_time, outcome, result, blob) ==
    [op |-> op, game_id |-> game_id, given |-> given, start_time |-> start_time,
     fresh |-> fresh, was_running |-> was_running, current_time |-> current_time,
     outcome |-> outcome, result |-> result, blob |-> blob]

\* GameTime(game_id, time_played=int(time_played), last_played_time=int(current_time))
GameTime(game_id, time_played, current_time) ==
    [game_id |-> game_id,
     time_played |-> TruncDiv(time_played, TicksPerMinute),
     last_played_time |-> TruncDiv(current_time, TicksPerSecond)]

\* the default of the parameter start_time: time() evaluated once, when the def
\* statement runs at module load, before any call
start_time_default == ClockStep

\* __init__: the store it builds, and the exception it raises if any
TimeTracker_init(blob) ==
    IF blob = <<>> THEN [outcome |-> "ok", cache |-> EmptyDict]
    ELSE IF ~is_hex(blob) THEN [outcome |-> "ValueError", cache |-> EmptyDict]
    ELSE LET r == pickle_loads(bytes_fromhex(blob))
         IN  IF r.ok THEN [outcome |-> "ok", cache |-> r.value]
             ELSE [outcome |-> "UnpicklingError", cache |-> EmptyDict]

\* the state after TimeTracker(blob); where __init__ raises there is no tracker
Constructed(blob, c, cache, running, cl) ==
    LET r == TimeTracker_init(blob)
    IN  /\ c = (r.outcome = "ok")
        /\ cache = r.cache
        /\ running = EmptyDict
        /\ cl = Call("__init__", "", TRUE, 0, FALSE, FALSE, 0, r.outcome, {}, blob)

\* the stores the first tracker is built from: each record as it is when an entity is
\* first seen at some clock reading, no time played yet (Restart carries the stores
\* with time played into later lifetimes)
InitRecords == [time_played : {0}, last_played : ClockReadings]

InitStores == UNION {[S -> InitRecords] : S \in SUBSET Entities}

\* strings that are no export of a store: not hexadecimal, of odd length, no pickle,
\* a pickle that ends early
MalformedBlobs ==
    {<<"z", "z">>, <<"8", "0", "0">>, <<"0", "0">>, <<"8", "0", "0", "4">>,
     SubSeq(time_cache_hex([e \in {"g1"} |-> [time_played |-> 0, last_played |-> ClockStep]]),
            1, 40)}

\* None and "" are both false in 'if game_time_cache:'; <<>> stands for both
InitBlobs == {<<>>} \cup MalformedBlobs \cup {time_cache_hex(d) : d \in InitStores}

\* a file that does not exist
NoFile == [state |-> "absent", lines |-> <<>>]

\* get_config_options has not been called
ConfigIdle ==
    [pc |-> "idle", options |-> <<>>, cfg |-> NoFile, dflt |-> NoFile, writable |-> TRUE,
     callback |-> FALSE, first |-> "none", reads |-> 0, copies |-> 0, deletes |-> 0,
     outcome |-> "none", returned |-> EmptyDict]

\* no thread is in a call
ThreadsIdle == <<>>

Init ==
    /\ \E blob \in InitBlobs :
        Constructed(blob, constructed, game_time_cache, running_games_dict, call)
    /\ config = ConfigIdle
    /\ threads = ThreadsIdle

\* a start that writes the new record whether or not the entity has one
lazy_create_reset(cache, game_id, start_time) ==
    [outcome |-> "ok",
     cache |-> DictSet(cache, game_id, [time_played |-> 0, last_played |-> start_time])]

\* a start that neither raises nor stores a record for an entity without one
lazy_create_skipped(cache, game_id, start_time) == [outcome |-> "ok", cache |-> cache]

\* lines 26-28: the lookup self._game_time_cache[game_id] of line 27 runs only for a
\* game_id that is not a key of the dict, and raises KeyError before anything is stored
lazy_create(cache, game_id, start_time) ==
    IF game_id \notin DOMAIN cache
    THEN [outcome |-> "KeyError", cache |-> cache]
    ELSE [outcome |-> "ok", cache |-> cache]

\* a start that always reads the clock
session_start_time_now(start_time, now) == now

\* line 29: time() if not start_time else start_time
session_start_time(start_time, now) == IF start_time = 0 THEN now ELSE start_time

StartArgs ==
    {[given |-> FALSE, value |-> start_time_default]}
    \cup {[given |-> TRUE, value |-> v] : v \in {0} \cup ClockReadings}

start_tracking_game ==
    /\ constructed
    /\ \E game_id \in Entities, arg \in StartArgs :
        \* time() of line 29 is called only where start_time is false; the default of
        \* an omitted start_time is not, whatever the clock shows during the call
        \E now \in IF (arg.value = 0 \/ ~arg.given) /\ game_id \in DOMAIN game_time_cache
                    THEN ClockReadings ELSE {0} :
        LET start_time == arg.value
            created == lazy_create(game_time_cache, game_id, start_time)
            read == now
        IN  /\ game_time_cache' = created.cache
            /\ running_games_dict' =
                 IF created.outcome = "ok"
                 THEN DictSet(running_games_dict, game_id,
                              [game_id |-> game_id,
                               start_time |-> session_start_time(start_time, now)])
                 ELSE running_games_dict
            /\ call' = Call("start_tracking_game", game_id, arg.given, start_time,
                            game_id \notin DOMAIN game_time_cache,
                            game_id \in DOMAIN running_games_dict, read,
                            created.outcome, {}, <<>>)
    /\ UNCHANGED <<constructed, config, threads>>

\* lines 33 and 38: game_id not in self._running_games_dict
stop_not_tracked(running, game_id) == game_id \notin DOMAIN running

\* a check against the store instead of the registry
get_not_tracked_by_cache(running, game_id) == game_id \notin DOMAIN game_time_cache

get_not_tracked(running, game_id) == game_id \notin DOMAIN running

\* a stop that empties the registry
stopped_all(running, game_id) == EmptyDict

\* line 35
stopped(running, game_id) == DictDel(running, game_id)

stop_tracking_game ==
    /\ constructed
    /\ \E game_id \in Entities :
        LET raised == stop_not_tracked(running_games_dict, game_id)
        IN  /\ running_games_dict' =
                 IF raised THEN running_games_dict ELSE stopped(running_games_dict, game_id)
            /\ call' = Call("stop_tracking_game", game_id, TRUE, 0, FALSE,
                            game_id \in DOMAIN running_games_dict, 0,
                            IF raised THEN "GameNotTrackedException" ELSE "ok", {}, <<>>)
    /\ UNCHANGED <<constructed, game_time_cache, config, threads>>

\* an update that measures from the session's start_time instead of last_played
tracked_from_session(cache, running, game_id, current_time) ==
    LET start_time == running[game_id].start_time
        minutes_passed == current_time - start_time
    IN  DictSet(cache, game_id,
                [time_played |-> cache[game_id].time_played + minutes_passed,
                 last_played |-> current_time])

\* an update that stores the session's start_time as last_played
tracked_stamp_session(cache, running, game_id, current_time) ==
    LET start_time == cache[game_id].last_played
        minutes_passed == current_time - start_time
    IN  DictSet(cache, game_id,
                [time_played |-> cache[game_id].time_played + minutes_passed,
                 last_played |-> running[game_id].start_time])

\* an update that stamps the record of every entity with a session
tracked_stamp_all(cache, running, game_id, current_time) ==
    [x \in DOMAIN cache |->
        IF x = game_id
        THEN [time_played |->
                  cache[x].time_played + (current_time - cache[x].last_played),
              last_played |-> current_time]
        ELSE IF x \in DOMAIN running
        THEN [time_played |-> cache[x].time_played, last_played |-> current_time]
        ELSE cache[x]]

\* lines 40-44: the store after the update, made from last_played and the clock
tracked(cache, running, game_id, current_time) ==
    LET start_time == cache[game_id].last_played
        minutes_passed == current_time - start_time
    IN  DictSet(cache, game_id,
                [time_played |-> cache[game_id].time_played + minutes_passed,
                 last_played |-> current_time])

get_tracked_time ==
    /\ constructed
    /\ \E game_id \in Entities, now \in ClockReadings :
        IF get_not_tracked(running_games_dict, game_id)
        THEN /\ call' = Call("get_tracked_time", game_id, TRUE, 0, FALSE,
                             game_id \in DOMAIN running_games_dict, 0,
                             "GameNotTrackedException", {}, <<>>)
             /\ UNCHANGED game_time_cache
        ELSE IF game_id \notin DOMAIN game_time_cache
        THEN /\ call' = Call("get_tracked_time", game_id, TRUE, 0, FALSE,
                             game_id \in DOMAIN running_games_dict, 0, "KeyError",
                             {}, <<>>)
             /\ UNCHANGED game_time_cache
        ELSE /\ game_time_cache' = tracked(game_time_cache, running_games_dict, game_id, now)
             /\ call' = Call("get_tracked_time", game_id, TRUE,
                             game_time_cache[game_id].last_played, FALSE,
                             game_id \in DOMAIN running_games_dict, now, "ok",
                             {GameTime(game_id, game_time_cache'[game_id].time_played, now)},
                             <<>>)
    /\ UNCHANGED <<constructed, running_games_dict, config, threads>>

\* returns the dict object itself
get_time_cache ==
    /\ constructed
    /\ call' = Call("get_time_cache", "", TRUE, 0, FALSE, FALSE, 0, "ok", {}, <<>>)
    /\ UNCHANGED <<constructed, game_time_cache, running_games_dict, config, threads>>

get_time_cache_hex ==
    /\ constructed
    /\ call' = Call("get_time_cache_hex", "", TRUE, 0, FALSE, FALSE, 0, "ok", {},
                    time_cache_hex(game_time_cache))
    /\ UNCHANGED <<constructed, game_time_cache, running_games_dict, config, threads>>

\* the next process lifetime: a new TimeTracker built from the string that
\* get_time_cache_hex has just returned
Restart ==
    /\ constructed
    /\ call.op = "get_time_cache_hex"
    /\ Constructed(call.blob, constructed', game_time_cache', running_games_dict', call')
    /\ UNCHANGED <<config, threads>>

Next ==
    \/ start_tracking_game
    \/ stop_tracking_game
    \/ get_tracked_time
    \/ get_time_cache
    \/ get_time_cache_hex
    \/ Restart

Spec == Init /\ [][Next]_vars

(***************************************************************************)
(* Properties.  A step is identified by the call it records: every action  *)
(* writes call', so in a step that changes the state call' is the call made.*)
(***************************************************************************)
FreshRecord(start_time) == [time_played |-> 0, last_played |-> start_time]

\* C1: start_tracking_game on an entity that has no record succeeds, creates the
\* record (time_played 0, last_played start_time) and leaves the entity with a session.
C1_StartCreatesRecord ==
    [][\A e \in Entities :
        (call'.op = "start_tracking_game" /\ call'.game_id = e
         /\ e \notin DOMAIN game_time_cache)
        => /\ call'.outcome = "ok"
           /\ e \in DOMAIN game_time_cache'
           /\ game_time_cache'[e] = FreshRecord(call'.start_time)
           /\ e \in DOMAIN running_games_dict']_vars

\* C2: get_tracked_time and stop_tracking_game on an entity without a session raise
\* GameNotTrackedException and change neither the registry nor the store.
C2_NotTrackedRaises ==
    [][\A e \in Entities :
        (call'.op \in {"get_tracked_time", "stop_tracking_game"} /\ call'.game_id = e
         /\ e \notin DOMAIN running_games_dict)
        => /\ call'.outcome = "GameNotTrackedException"
           /\ running_games_dict' = running_games_dict
           /\ game_time_cache' = game_time_cache]_vars

\* a query refused for an entity that has a record with time played, and so was
\* tracked and stopped, while the other entity is being tracked
C2_Witness ==
    /\ call.op = "get_tracked_time"
    /\ call.outcome = "GameNotTrackedException"
    /\ call.game_id \in DOMAIN game_time_cache
    /\ game_time_cache[call.game_id].time_played # 0
    /\ call.game_id \notin DOMAIN running_games_dict
    /\ DOMAIN running_games_dict # {}

\* C3: construction from a blob that cannot be deserialized completes, and the store
\* is then the empty map.
C3_MalformedBlobEmptyStore ==
    (call.op = "__init__" /\ call.blob \in MalformedBlobs)
    => (constructed /\ call.outcome = "ok" /\ game_time_cache = EmptyDict)

\* C4: a tracker built from the string get_time_cache_hex returned has the store of the
\* tracker that exported it, and an empty registry.
C4_RoundTrip ==
    [][call'.op = "__init__"
        => /\ call.op = "get_time_cache_hex"
           /\ call'.blob = call.blob
           /\ constructed'
           /\ call'.outcome = "ok"
           /\ game_time_cache' = game_time_cache
           /\ running_games_dict' = EmptyDict]_vars

\* a tracker rebuilt from the export of a store with both entities, one with time
\* played and one with negative time played
C4_Witness ==
    /\ call.op = "__init__"
    /\ constructed
    /\ DOMAIN game_time_cache = Entities
    /\ \E e \in Entities : game_time_cache[e].time_played > 0
    /\ \E e \in Entities : game_time_cache[e].time_played < 0

\* C5: time_played of an entity never decreases.
C5_TimePlayedMonotone ==
    [][\A e \in DOMAIN game_time_cache :
        /\ e \in DOMAIN game_time_cache'
        /\ game_time_cache'[e].time_played >= game_time_cache[e].time_played]_vars

\* C6 as stated: last_played of an entity never decreases.
C6_LastPlayedMonotone ==
    [][\A e \in DOMAIN game_time_cache :
        /\ e \in DOMAIN game_time_cache'
        /\ game_time_cache'[e].last_played >= game_time_cache[e].last_played]_vars

\* C6 amended: last_played of an entity decreases only in a successful get_tracked_time
\* on that entity whose clock reading is below the stored last_played, and it is then
\* that reading; every successful get_tracked_time stores its clock reading.
C6_LastPlayedIsLastReading ==
    [][\A e \in DOMAIN game_time_cache :
        /\ e \in DOMAIN game_time_cache'
        /\ \/ game_time_cache'[e].last_played >= game_time_cache[e].last_played
           \/ /\ call'.op = "get_tracked_time" /\ call'.game_id = e /\ call'.outcome = "ok"
              /\ call'.current_time < game_time_cache[e].last_played
        /\ (call'.op = "get_tracked_time" /\ call'.game_id = e /\ call'.outcome = "ok")
           => game_time_cache'[e].last_played = call'.current_time]_vars

\* a query answered with a clock reading below the stored last_played
C6_Witness ==
    /\ call.op = "get_tracked_time"
    /\ call.outcome = "ok"
    /\ call.current_time < call.start_time
    /\ game_time_cache[call.game_id].last_played = call.current_time

\* C7: start of an entity without a record at t0, then get_tracked_time at t1 > t0,
\* returns time_played = round((t1 - t0) / 60) and last_played_time = round(t1).
C7_FirstQueryRounded ==
    [][(/\ call.op = "start_tracking_game" /\ call.fresh /\ call.start_time # 0
        /\ call'.op = "get_tracked_time" /\ call'.game_id = call.game_id)
       => /\ call'.outcome = "ok"
          /\ call'.current_time > call.start_time
             => call'.result =
                  {[game_id |-> call.game_id,
                    time_played |->
                        RoundDiv(call'.current_time - call.start_time, TicksPerMinute),
                    last_played_time |-> RoundDiv(call'.current_time, TicksPerSecond)]}]_vars

\* C8: of two consecutive successful get_tracked_time calls on an entity, at t1 and then
\* at t2 > t1, the second adds exactly (t2 - t1) / 60 to the stored time_played and
\* reports the stored total truncated; where the total was 0 at t0 < t1, the reading
\* before the first call, the reported total is within one minute of
\* round((t1 - t0) / 60) + round((t2 - t1) / 60).
C8_Additive ==
    [][(/\ call.op = "get_tracked_time" /\ call.outcome = "ok"
        /\ call'.op = "get_tracked_time" /\ call'.outcome = "ok"
        /\ call'.game_id = call.game_id
        /\ call'.current_time > call.current_time)
       => LET e == call.game_id
          IN  /\ game_time_cache'[e].time_played - game_time_cache[e].time_played
                   = call'.current_time - call.current_time
              /\ \A r \in call'.result :
                   r.time_played
                     = TruncDiv(game_time_cache[e].time_played
                                + (call'.current_time - call.current_time), TicksPerMinute)
              /\ (/\ call.current_time > call.start_time
                  /\ game_time_cache[e].time_played = call.current_time - call.start_time)
                 => \A r \in call'.result :
                      LET sum == RoundDiv(call.current_time - call.start_time, TicksPerMinute)
                                 + RoundDiv(call'.current_time - call.current_time,
                                            TicksPerMinute)
                      IN  r.time_played - sum \in {-1, 0, 1}]_vars

\* a query that adds less than a minute to a total that earlier queries brought above
\* it, and reports a whole minute: the intervals below a minute were kept
C8_Witness ==
    /\ call.op = "get_tracked_time"
    /\ call.outcome = "ok"
    /\ call.current_time > call.start_time
    /\ call.current_time - call.start_time < TicksPerMinute
    /\ game_time_cache[call.game_id].time_played > call.current_time - call.start_time
    /\ \E r \in call.result : r.time_played >= 1

\* C9: stop_tracking_game on an entity with a session removes that session and nothing
\* else, leaves the store as it is, and a second stop right after it raises.
C9_StopFrame ==
    [][/\ \A e \in Entities :
            (call'.op = "stop_tracking_game" /\ call'.game_id = e
             /\ e \in DOMAIN running_games_dict)
            => /\ call'.outcome = "ok"
               /\ running_games_dict' =
                    [x \in DOMAIN running_games_dict \ {e} |-> running_games_dict[x]]
               /\ game_time_cache' = game_time_cache
       /\ (/\ call.op = "stop_tracking_game" /\ call.outcome = "ok"
           /\ call'.op = "stop_tracking_game" /\ call'.game_id = call.game_id)
          => call'.outcome = "GameNotTrackedException"]_vars

\* a stop that succeeded while the other entity has a session
C9_Witness ==
    /\ call.op = "stop_tracking_game"
    /\ call.outcome = "ok"
    /\ call.game_id \notin DOMAIN running_games_dict
    /\ DOMAIN running_games_dict # {}

\* C10: start_tracking_game on an entity that has a record leaves the store as it is
\* and touches no session but that entity's.
C10_RestartKeepsRecord ==
    [][\A e \in Entities :
        (call'.op = "start_tracking_game" /\ call'.game_id = e
         /\ e \in DOMAIN game_time_cache)
        => /\ call'.outcome = "ok"
           /\ game_time_cache' = game_time_cache
           /\ e \in DOMAIN running_games_dict'
           /\ \A x \in Entities \ {e} :
                /\ (x \in DOMAIN running_games_dict') = (x \in DOMAIN running_games_dict)
                /\ x \in DOMAIN running_games_dict
                   => running_games_dict'[x] = running_games_dict[x]]_vars

\* a start of an entity whose record holds time played and a last_played that is not
\* the start time passed
C10_Witness ==
    /\ call.op = "start_tracking_game"
    /\ call.outcome = "ok"
    /\ call.given
    /\ game_time_cache[call.game_id].time_played # 0
    /\ game_time_cache[call.game_id].last_played # call.start_time

\* C11: a start_tracking_game that is given no start_time, or start_time 0, records
\* the clock reading of that call as the session's start_time.
C11_UnsetStartIsNow ==
    [][\A e \in Entities :
        (/\ call'.op = "start_tracking_game" /\ call'.game_id = e /\ call'.outcome = "ok"
         /\ (~call'.given \/ call'.start_time = 0))
        => /\ e \in DOMAIN running_games_dict'
           /\ running_games_dict'[e].start_time = call'.current_time]_vars

\* C12: start_tracking_game on an entity that has a session does not raise and leaves
\* that entity with one session, stored under its id, whose start_time is the start
\* time passed (the clock reading where 0 was passed); every session of the registry is
\* stored under its own game_id, so no entity has two.
C12_StartOverwrites ==
    [][/\ \A e \in Entities :
            (call'.op = "start_tracking_game" /\ call'.game_id = e
             /\ e \in DOMAIN running_games_dict)
            => /\ call'.outcome = "ok"
               /\ e \in DOMAIN running_games_dict'
               /\ DOMAIN running_games_dict' = DOMAIN running_games_dict
               /\ call'.given
                  => running_games_dict'[e].start_time =
                       IF call'.start_time = 0 THEN call'.current_time
                       ELSE call'.start_time
       /\ \A x \in DOMAIN running_games_dict' : running_games_dict'[x].game_id = x]_vars

\* a start, with a start time passed, of an entity that had a session, which now starts
\* at that time, while the other entity has a session too
C12_Witness ==
    /\ call.op = "start_tracking_game"
    /\ call.outcome = "ok"
    /\ call.was_running
    /\ call.given /\ call.start_time # 0
    /\ running_games_dict[call.game_id].start_time = call.start_time
    /\ DOMAIN running_games_dict = Entities

\* C17: every entity with a session has a record, so a get_tracked_time that passes
\* the session check finds the record; a start_tracking_game that raises leaves the
\* registry and the store as they were.
C17_SessionsHaveRecords ==
    /\ [](DOMAIN running_games_dict \subseteq DOMAIN game_time_cache)
    /\ [][/\ (call'.op = "get_tracked_time" /\ call'.was_running)
             => call'.outcome = "ok"
          /\ (call'.op = "start_tracking_game" /\ call'.outcome # "ok")
             => /\ running_games_dict' = running_games_dict
                /\ game_time_cache' = game_time_cache]_vars

\* a start that raised while the other entity, which has a record, is being tracked
C17_Witness ==
    /\ call.op = "start_tracking_game"
    /\ call.outcome = "KeyError"
    /\ call.game_id \notin DOMAIN game_time_cache
    /\ DOMAIN running_games_dict # {}

\* C18: time_played - last_played / 60 of a record never changes; get_tracked_time
\* adds the time since the record's last_played, whatever the session's start_time,
\* the time during which no session was open included.
C18_DifferenceKept ==
    [][/\ \A e \in DOMAIN game_time_cache :
            /\ e \in DOMAIN game_time_cache'
            /\ game_time_cache'[e].time_played - game_time_cache'[e].last_played
                 = game_time_cache[e].time_played - game_time_cache[e].last_played
       /\ \A e \in Entities :
            (call'.op = "get_tracked_time" /\ call'.game_id = e /\ call'.outcome = "ok")
            => game_time_cache'[e].time_played - game_time_cache[e].time_played
                 = call'.current_time - game_time_cache[e].last_played]_vars

\* a query at t3 of a session started at t2 < t3, on a record last observed at t1 < t2
\* by an earlier query: the total grew by (t3 - t1) / 60
C18_Witness ==
    /\ call.op = "get_tracked_time"
    /\ call.outcome = "ok"
    /\ call.start_time < running_games_dict[call.game_id].start_time
    /\ running_games_dict[call.game_id].start_time < call.current_time
    /\ game_time_cache[call.game_id].time_played # call.current_time - call.start_time

\* C19: a successful get_tracked_time changes the record of its entity and nothing else;
\* get_time_cache and get_time_cache_hex change neither the registry nor the store.
C19_QueryFrame ==
    [][/\ \A e \in Entities :
            (call'.op = "get_tracked_time" /\ call'.game_id = e /\ call'.outcome = "ok")
            => /\ running_games_dict' = running_games_dict
               /\ DOMAIN game_time_cache' = DOMAIN game_time_cache
               /\ \A x \in DOMAIN game_time_cache \ {e} :
                    game_time_cache'[x] = game_time_cache[x]
       /\ call'.op \in {"get_time_cache", "get_time_cache_hex"}
          => /\ call'.outcome = "ok"
             /\ running_games_dict' = running_games_dict
             /\ game_time_cache' = game_time_cache]_vars

\* a query that changed the record of its entity while the other entity, with a record
\* last observed at another time, has a session too
C19_Witness ==
    /\ call.op = "get_tracked_time"
    /\ call.outcome = "ok"
    /\ call.current_time # call.start_time
    /\ DOMAIN running_games_dict = Entities
    /\ \E x \in Entities \ {call.game_id} :
         game_time_cache[x].last_played # call.current_time

(***************************************************************************)
(* config_parser.py.                                                       *)
(* A Python value is [type, repr], repr being str(value).  A line of a     *)
(* file is given by what _parse_config and _copy_default_config test: it   *)
(* is blank ('\n'), a marker (starts with '##'), a comment (starts with    *)
(* '#'), an assignment (split("=") gives a name and a value, both          *)
(* stripped) or bare (no '=': split("=") gives one part).                  *)
(***************************************************************************)
\* a config.cfg holds up to MaxLines lines
MaxLines == 2
\* how often another process removes config.cfg during the call
MaxDeletes == 1

PyBool(b) == [type |-> "bool", repr |-> IF b THEN "True" ELSE "False"]

PyInt(n) == [type |-> "int", repr |-> ToString(n)]

PyStr(x) == [type |-> "str", repr |-> x]

\* str.lower() on the strings of the model
Lower(x) ==
    CASE x = "True" -> "true"
      [] x = "False" -> "false"
      [] x = "None" -> "none"
      [] OTHER -> x

\* Option(option_name, str_option, allowed_values, default_value); the defaults of the
\* dataclass are str_option False, allowed_values [True, False], default_value False
Option(option_name, str_option, allowed_values, default_value) ==
    [option_name |-> option_name, str_option |-> str_option,
     allowed_values |-> allowed_values, default_value |-> default_value]

LogOption == Option("log", FALSE, <<PyBool(TRUE), PyBool(FALSE)>>, PyBool(FALSE))

ModeOption == Option("mode", FALSE, [i \in 1..4 |-> PyInt(i - 1)], PyInt(1))

PathOption == Option("path", TRUE, <<PyBool(TRUE), PyBool(FALSE)>>, PyBool(FALSE))

\* the lists passed to get_config_options
OptionLists ==
    {<<LogOption, ModeOption>>, <<ModeOption, PathOption>>, <<PathOption, LogOption>>}

Assign(name, value) == [kind |-> "assign", name |-> name, value |-> value]

OtherLine(kind) == [kind |-> kind, name |-> "", value |-> ""]

ConfigLines ==
    {Assign("mode", "2"), Assign("mode", "1"), Assign("mode", "9"),
     Assign("log", "true"), Assign("log", "False"),
     Assign("path", "abc"), Assign("path", "None"), Assign("other", "1"),
     OtherLine("comment"), OtherLine("marker"), OtherLine("blank"), OtherLine("bare")}

FileContents == UNION {[1..n -> ConfigLines] : n \in 0..MaxLines}

File(lines) == [state |-> "file", lines |-> lines]

\* a file that exists and cannot be opened (open raises PermissionError)
Unreadable == [state |-> "unreadable", lines |-> <<>>]

\* lines 147-153: return_dict before the first line is read
default_dict(options) ==
    [n \in {options[i].option_name : i \in DOMAIN options} |->
        LET i == CHOOSE j \in DOMAIN options :
                    /\ options[j].option_name = n
                    /\ \A k \in DOMAIN options : options[k].option_name = n => k <= j
        IN  options[i].default_value]

\* options_dict[name]: the last option declared under the name
option_named(options, name) ==
    options[CHOOSE j \in DOMAIN options :
                /\ options[j].option_name = name
                /\ \A k \in DOMAIN options : options[k].option_name = name => k <= j]

\* lines 165-171: the indexes of the allowed values that the loop accepts for value
accepted(op, value) ==
    {i \in DOMAIN op.allowed_values :
        /\ Lower(value) = Lower(op.allowed_values[i].repr)
        /\ value # op.default_value.repr}

\* lines 155-173 for one line: [outcome, dict]
parse_line(options, return_dict, line) ==
    IF line.kind \in {"comment", "marker", "blank"}
    THEN [outcome |-> "ok", dict |-> return_dict]
    ELSE IF line.kind = "bare"
    THEN [outcome |-> "IndexError", dict |-> return_dict]
    ELSE IF line.name \notin DOMAIN return_dict
    THEN [outcome |-> "ok", dict |-> return_dict]
    ELSE LET op == option_named(options, line.name)
             hits == accepted(op, line.value)
         IN  IF op.str_option /\ line.value # "None"
             THEN [outcome |-> "ok",
                   dict |-> [return_dict EXCEPT ![line.name] = PyStr(line.value)]]
             ELSE IF hits # {}
             THEN [outcome |-> "ok",
                   dict |-> [return_dict EXCEPT ![line.name] =
                                op.allowed_values[CHOOSE i \in hits :
                                                     \A j \in hits : i <= j]]]
             ELSE [outcome |-> "ok", dict |-> return_dict]

RECURSIVE parse_lines(_, _, _, _)
parse_lines(options, return_dict, lines, i) ==
    IF i > Len(lines) THEN [outcome |-> "ok", dict |-> return_dict]
    ELSE LET r == parse_line(options, return_dict, lines[i])
         IN  IF r.outcome = "ok" THEN parse_lines(options, r.dict, lines, i + 1) ELSE r

\* _parse_config, CONFIG_OPTIONS being options: [outcome, dict]
parse_config(options, lines) == parse_lines(options, default_dict(options), lines, 1)

\* lines 127-139: the lines _copy_default_config writes
RECURSIVE copy_lines(_, _, _)
copy_lines(lines, i, escaped_default_strings) ==
    IF i > Len(lines) THEN <<>>
    ELSE IF ~escaped_default_strings
    THEN IF lines[i].kind = "marker" THEN copy_lines(lines, i + 1, FALSE)
         ELSE IF lines[i].kind # "blank"
         THEN <<lines[i]>> \o copy_lines(lines, i + 1, TRUE)
         ELSE copy_lines(lines, i + 1, FALSE)
    ELSE IF lines[i].kind = "marker" THEN copy_lines(lines, i + 1, FALSE)
         ELSE <<lines[i]>> \o copy_lines(lines, i + 1, TRUE)

\* the exception _copy_default_config raises: open(DEFAULT_CONFIG_PATH, 'r') first,
\* then open(CONFIG_PATH, 'w+')
copy_exception(dflt, writable) ==
    IF dflt.state = "absent" THEN "FileNotFoundError"
    ELSE IF dflt.state = "unreadable" \/ ~writable THEN "PermissionError"
    ELSE "none"

\* lines 99-106: what the handlers around _copy_default_config raise
copy_handler(exception) == "BackendError"

\* the exception of lines 91-93: open(CONFIG_PATH, "r"), then _parse_config
read_exception(options, cfg) ==
    IF cfg.state = "absent" THEN "FileNotFoundError"
    ELSE IF cfg.state = "unreadable" THEN "PermissionError"
    ELSE parse_config(options, cfg.lines).outcome

\* a handler that copies the default again after any failure of the second read
read_handler_retry(exception, callback) == "copy"

\* lines 95 and 111-121: where an exception of lines 91-93 leads, in either frame:
\* to the copy of the default, or to BackendError
read_handler(exception, callback) ==
    IF exception = "FileNotFoundError" THEN "copy" ELSE "BackendError"

\* the counters of the model stop counting at CountCap
CountCap == MaxDeletes + 3

Count(n) == IF n < CountCap THEN n + 1 ELSE n

ConfigFiles ==
    {[cfg |-> File(l), dflt |-> NoFile, writable |-> TRUE] : l \in FileContents}
    \cup {[cfg |-> Unreadable, dflt |-> NoFile, writable |-> TRUE]}
    \cup [cfg : {NoFile},
          dflt : {NoFile, Unreadable} \cup {File(l) : l \in FileContents},
          writable : BOOLEAN]

\* get_config_options(options) is called: _get_config_options(options, False) is about
\* to run line 91
ConfigInit ==
    /\ constructed = FALSE
    /\ game_time_cache = EmptyDict
    /\ running_games_dict = EmptyDict
    /\ call = Call("none", "", TRUE, 0, FALSE, FALSE, 0, "ok", {}, <<>>)
    /\ threads = ThreadsIdle
    /\ \E options \in OptionLists, files \in ConfigFiles :
         config = [ConfigIdle EXCEPT !.pc = "open", !.options = options,
                                     !.cfg = files.cfg, !.dflt = files.dflt,
                                     !.writable = files.writable]

Raised(exception) == [config EXCEPT !.pc = "done", !.outcome = exception]

\* lines 90-95 and 111-121 of the frame that runs
ReadConfig ==
    /\ config.pc = "open"
    /\ LET exception == read_exception(config.options, config.cfg)
           c == [config EXCEPT !.reads = Count(@),
                               !.first = IF config.reads # 0 THEN @
                                         ELSE IF exception = "none" \/ exception = "ok"
                                         THEN "ok"
                                         ELSE IF exception = "FileNotFoundError"
                                         THEN "missing" ELSE "error"]
       IN  config' =
             IF exception = "ok"
             THEN [c EXCEPT !.pc = "done", !.outcome = "returned",
                            !.returned = parse_config(config.options, config.cfg.lines).dict]
             ELSE IF read_handler(exception, config.callback) = "copy"
             THEN [c EXCEPT !.pc = "copy"]
             ELSE [c EXCEPT !.pc = "done", !.outcome = "BackendError"]
    /\ UNCHANGED <<constructed, game_time_cache, running_games_dict, call, threads>>

\* lines 96-110: _copy_default_config, then _get_config_options(options, _callback=True),
\* whose result or BackendError this frame passes on
CopyDefault ==
    /\ config.pc = "copy"
    /\ LET exception == copy_exception(config.dflt, config.writable)
       IN  config' =
             IF exception # "none"
             THEN Raised(copy_handler(exception))
             ELSE [config EXCEPT !.pc = "open", !.callback = TRUE,
                                 !.copies = Count(@),
                                 !.cfg = File(copy_lines(config.dflt.lines, 1, FALSE))]
    /\ UNCHANGED <<constructed, game_time_cache, running_games_dict, call, threads>>

\* another process removes config.cfg between the copy and the second read
EnvDelete ==
    /\ config.pc = "open"
    /\ config.callback
    /\ config.cfg.state = "file"
    /\ config.deletes < MaxDeletes
    /\ config' = [config EXCEPT !.cfg = NoFile, !.deletes = @ + 1]
    /\ UNCHANGED <<constructed, game_time_cache, running_games_dict, call, threads>>

ConfigStep == ReadConfig \/ CopyDefault

ConfigNext ==
    \/ ReadConfig
    \/ CopyDefault
    \/ EnvDelete

ConfigSpec == ConfigInit /\ [][ConfigNext]_vars

\* the interpreter runs the call to its end
ConfigFairSpec == ConfigSpec /\ WF_vars(ConfigStep)

(***************************************************************************)
(* Properties of config_parser.py.                                         *)
(***************************************************************************)
ConfigDone == config.pc = "done"

\* C13: when config.cfg is absent and default_config.cfg is absent too,
\* get_config_options raises FileNotFoundError to its caller.
C13_DefaultMissingRaisesFileNotFound ==
    (ConfigDone /\ config.first = "missing" /\ config.dflt.state = "absent")
        => config.outcome = "FileNotFoundError"

\* the lines of the file that assign to name
AssignmentsTo(lines, name) ==
    {i \in DOMAIN lines : lines[i].kind = "assign" /\ lines[i].name = name}

\* the value the documentation gives to option op when the file assigns value to it
DocumentedValue(op, value) ==
    LET same == {i \in DOMAIN op.allowed_values :
                    Lower(value) = Lower(op.allowed_values[i].repr)}
    IN  IF op.str_option THEN PyStr(value)
        ELSE IF same # {}
        THEN op.allowed_values[CHOOSE i \in same : \A j \in same : i <= j]
        ELSE op.default_value

\* the dict the documentation describes, the last assignment to an option deciding
DocumentedDict(options, lines) ==
    [n \in {options[i].option_name : i \in DOMAIN options} |->
        LET at == AssignmentsTo(lines, n)
            op == option_named(options, n)
        IN  IF at = {} THEN op.default_value
            ELSE DocumentedValue(op, lines[CHOOSE i \in at : \A j \in at : j <= i].value)]

\* C14: for every list of declared options and every config.cfg whose lines are all
\* name=value, the returned dict maps each declared option to the allowed value (any
\* string for a str option) that the last assignment to it gives, and to its
\* default_value when it is not assigned or the assigned value is not allowed.
C14_ReturnsDocumentedDict ==
    (/\ ConfigDone
     /\ config.first = "ok"
     /\ \A i \in DOMAIN config.cfg.lines : config.cfg.lines[i].kind = "assign")
        => /\ config.outcome = "returned"
           /\ config.returned = DocumentedDict(config.options, config.cfg.lines)

\* what the call does after config.cfg was found missing while default_config.cfg can
\* be read: config.cfg is the filtered copy, read once after each copy, and the call
\* returns its parse, or raises BackendError when the parse raises
Recovered ==
    /\ config.copies = config.deletes + 1
    /\ config.reads = config.copies + 1
    /\ config.cfg = File(copy_lines(config.dflt.lines, 1, FALSE))
    /\ LET r == parse_config(config.options, config.cfg.lines)
       IN  IF r.outcome = "ok"
           THEN config.outcome = "returned" /\ config.returned = r.dict
           ELSE config.outcome = "BackendError"

\* C15 as stated: when config.cfg is absent and default_config.cfg is present and
\* readable, config.cfg is created from it and re-read once after the copy, the call
\* returning the parsed options or, when the re-read fails, BackendError.
C15_MissingConfigIsCreated ==
    (ConfigDone /\ config.first = "missing" /\ config.dflt.state = "file")
        => Recovered

\* C15 (amended): the same when config.cfg can be created; when it cannot, the call
\* raises BackendError and config.cfg stays absent; and the call ends in every case.
C15_Recovers ==
    /\ [](((ConfigDone /\ config.first = "missing" /\ config.dflt.state = "file")
            => IF config.writable THEN Recovered
               ELSE /\ config.outcome = "BackendError"
                    /\ config.cfg = NoFile
                    /\ config.copies = 0
                    /\ config.reads = 1))
    /\ <>ConfigDone

C15_Witness ==
    /\ ConfigDone
    /\ config.first = "missing"
    /\ config.dflt.state = "file"
    /\ config.writable
    /\ config.deletes = 0
    /\ config.copies = 1
    /\ Len(config.cfg.lines) < Len(config.dflt.lines)
    /\ config.outcome = "returned"
    /\ config.returned # default_dict(config.options)

(***************************************************************************)
(* Two threads call stop_tracking_game and get_tracked_time of one         *)
(* TimeTracker.  The class takes no lock, so the interpreter may switch    *)
(* threads between any two statements, and inside the += of line 44        *)
(* between the load and the store of time_played.  threads.of[t] is the    *)
(* frame of thread t: its call, the line it is about to run and its local  *)
(* variables; threads.cache0 and threads.running0 keep the store and the   *)
(* registry found when the two calls began.                                *)
(***************************************************************************)
Threads == {"t1", "t2"}

ThreadCalls == [op : {"get_tracked_time", "stop_tracking_game"}, game_id : Entities]

Frame(c) ==
    [op |-> c.op, game_id |-> c.game_id,
     pc |-> IF c.op = "get_tracked_time" THEN "38" ELSE "33",
     start_time |-> 0, current_time |-> 0, minutes_passed |-> 0, time_played |-> 0,
     outcome |-> "none", result |-> {}]

\* every entity has a record, last stamped at the first clock reading
ThreadStore == [x \in Entities |-> [time_played |-> 0, last_played |-> ClockStep]]

ThreadRegistries ==
    {[x \in S |-> [game_id |-> x, start_time |-> ClockStep]] : S \in SUBSET Entities}

ThreadInit ==
    /\ constructed = TRUE
    /\ game_time_cache = ThreadStore
    /\ running_games_dict \in ThreadRegistries
    /\ call = Call("none", "", TRUE, 0, FALSE, FALSE, 0, "ok", {}, <<>>)
    /\ config = ConfigIdle
    /\ \E c \in [Threads -> ThreadCalls] :
         threads = [of |-> [t \in Threads |-> Frame(c[t])],
                    cache0 |-> game_time_cache, running0 |-> running_games_dict]

At_(t, op, pc) == threads.of[t].op = op /\ threads.of[t].pc = pc

Goto(t, pc) == [threads EXCEPT !.of[t].pc = pc]

Ended(t, outcome, result) ==
    [threads EXCEPT !.of[t].pc = "done", !.of[t].outcome = outcome,
                    !.of[t].result = result]

\* the clock does not run backwards between the readings of the threads
ThreadClock ==
    {now \in ClockReadings : \A t \in Threads : threads.of[t].current_time <= now}

\* lines 33-34
StopCheck(t) ==
    /\ At_(t, "stop_tracking_game", "33")
    /\ threads' = IF stop_not_tracked(running_games_dict, threads.of[t].game_id)
                  THEN Ended(t, "GameNotTrackedException", {})
                  ELSE Goto(t, "35")
    /\ UNCHANGED <<constructed, game_time_cache, running_games_dict, call, config>>

\* line 35: del raises KeyError when the key is gone
StopDel(t) ==
    /\ At_(t, "stop_tracking_game", "35")
    /\ IF threads.of[t].game_id \in DOMAIN running_games_dict
       THEN /\ running_games_dict' = stopped(running_games_dict, threads.of[t].game_id)
            /\ threads' = Ended(t, "ok", {})
       ELSE /\ threads' = Ended(t, "KeyError", {})
            /\ UNCHANGED running_games_dict
    /\ UNCHANGED <<constructed, game_time_cache, call, config>>

\* lines 38-39
GetCheck(t) ==
    /\ At_(t, "get_tracked_time", "38")
    /\ threads' = IF get_not_tracked(running_games_dict, threads.of[t].game_id)
                  THEN Ended(t, "GameNotTrackedException", {})
                  ELSE Goto(t, "40")
    /\ UNCHANGED <<constructed, game_time_cache, running_games_dict, call, config>>

\* line 40
GetLastPlayed(t) ==
    /\ At_(t, "get_tracked_time", "40")
    /\ threads' = [Goto(t, "41") EXCEPT !.of[t].start_time =
                       game_time_cache[threads.of[t].game_id].last_played]
    /\ UNCHANGED <<constructed, game_time_cache, running_games_dict, call, config>>

\* line 41
GetClock(t) ==
    /\ At_(t, "get_tracked_time", "41")
    /\ \E now \in ThreadClock :
         threads' = [Goto(t, "42") EXCEPT !.of[t].current_time = now]
    /\ UNCHANGED <<constructed, game_time_cache, running_games_dict, call, config>>

\* line 42
GetStamp(t) ==
    /\ At_(t, "get_tracked_time", "42")
    /\ game_time_cache' =
         [game_time_cache EXCEPT ![threads.of[t].game_id].last_played =
                                     threads.of[t].current_time]
    /\ threads' = Goto(t, "44")
    /\ UNCHANGED <<constructed, running_games_dict, call, config>>

\* line 43, and of line 44 the load of time_played and the addition
GetAdd(t) ==
    /\ At_(t, "get_tracked_time", "44")
    /\ LET minutes_passed == threads.of[t].current_time - threads.of[t].start_time
       IN  threads' = [Goto(t, "44s") EXCEPT
                          !.of[t].minutes_passed = minutes_passed,
                          !.of[t].time_played =
                              game_time_cache[threads.of[t].game_id].time_played
                                  + minutes_passed]
    /\ UNCHANGED <<constructed, game_time_cache, running_games_dict, call, config>>

\* of line 44 the store of time_played
GetStore(t) ==
    /\ At_(t, "get_tracked_time", "44s")
    /\ game_time_cache' =
         [game_time_cache EXCEPT ![threads.of[t].game_id].time_played =
                                     threads.of[t].time_played]
    /\ threads' = Goto(t, "45")
    /\ UNCHANGED <<constructed, running_games_dict, call, config>>

\* lines 45-46
GetReturn(t) ==
    /\ At_(t, "get_tracked_time", "45")
    /\ LET time_played == game_time_cache[threads.of[t].game_id].time_played
       IN  threads' = [Ended(t, "ok", {GameTime(threads.of[t].game_id, time_played,
                                                threads.of[t].current_time)})
                          EXCEPT !.of[t].time_played = time_played]
    /\ UNCHANGED <<constructed, game_time_cache, running_games_dict, call, config>>

ThreadNext ==
    \E t \in Threads :
        \/ StopCheck(t)
        \/ StopDel(t)
        \/ GetCheck(t)
        \/ GetLastPlayed(t)
        \/ GetClock(t)
        \/ GetStamp(t)
        \/ GetAdd(t)
        \/ GetStore(t)
        \/ GetReturn(t)

ThreadSpec == ThreadInit /\ [][ThreadNext]_vars

(***************************************************************************)
(* Properties of the threaded calls.                                       *)
(***************************************************************************)
\* the call of frame f run alone, as one step, on the state s = [cache, running]:
\* the state after it, its outcome and its result
Alone(s, f) ==
    IF f.op = "stop_tracking_game"
    THEN IF stop_not_tracked(s.running, f.game_id)
         THEN [cache |-> s.cache, running |-> s.running,
               outcome |-> "GameNotTrackedException", result |-> {}]
         ELSE [cache |-> s.cache, running |-> stopped(s.running, f.game_id),
               outcome |-> "ok", result |-> {}]
    ELSE IF get_not_tracked(s.running, f.game_id)
         THEN [cache |-> s.cache, running |-> s.running,
               outcome |-> "GameNotTrackedException", result |-> {}]
         ELSE LET cache == tracked(s.cache, s.running, f.game_id, f.current_time)
              IN  [cache |-> cache, running |-> s.running, outcome |-> "ok",
                   result |-> {GameTime(f.game_id, cache[f.game_id].time_played,
                                        f.current_time)}]

\* the two calls end as if a ran alone and then b ran alone
Serial(a, b) ==
    LET s0 == [cache |-> threads.cache0, running |-> threads.running0]
        s1 == Alone(s0, threads.of[a])
        s2 == Alone(s1, threads.of[b])
    IN  /\ game_time_cache = s2.cache
        /\ running_games_dict = s2.running
        /\ threads.of[a].outcome = s1.outcome
        /\ threads.of[a].result = s1.result
        /\ threads.of[b].outcome = s2.outcome
        /\ threads.of[b].result = s2.result

BothDone == \A t \in Threads : threads.of[t].pc = "done"

\* the pairs the claim is about: the same entity, and at least one get_tracked_time
RacingPair ==
    /\ threads.of["t1"].game_id = threads.of["t2"].game_id
    /\ \E t \in Threads : threads.of[t].op = "get_tracked_time"

\* C16: a stop and a get_tracked_time on the same entity, or two get_tracked_time on
\* the same entity, called from two threads end in a state and with results equal to
\* those of one of the two sequential orders of the calls.
C16_Serializable ==
    (BothDone /\ RacingPair) => (Serial("t1", "t2") \/ Serial("t2", "t1"))

====
